---- MODULE Spec2Model ----
(***************************************************************************)
(* Model of the Sonos adapter of polaris: src/src/sonos/mod.rs             *)
(* (SonosService: get_speakers, play_track, get_state, and the helper      *)
(* parse_time_to_seconds) and src/src/app/config/sonos.rs (SonosConfig).   *)
(*                                                                         *)
(* Representation.                                                         *)
(*  - A Rust String / &str is the sequence of its UTF-8 bytes (naturals    *)
(*    0..255).  S(<<"a", "b">>) writes a literal from printable ASCII.     *)
(*  - Option<T> is None or Some(v).                                        *)
(*  - u64 / u32 values are natural numbers written as little-endian        *)
(*    sequences of 16-bit limbs without high zero limbs (<<>> is 0), so    *)
(*    that the 64-bit and 32-bit widths of the code are kept exactly.      *)
(*  - A serde_json::Value is a tagged record (JNull, JStr, JNum, ...).     *)
(***************************************************************************)
EXTENDS Integers, Sequences, FiniteSets, Bags, TLC

VARIABLES
    config,           \* the SonosConfig value (api_url, mp3_server)
    base_url,         \* SonosService.base_url
    overflow_checks,  \* whether the build traps on integer overflow
    served,           \* the JSON document the backend serves to a GET
    picked,           \* the speaker and the track URL the listener picked
    calls,            \* the bag of calls of the async operations that are
                      \* pending at an await, or returned and not yet taken
    op,               \* the synchronous function that ran last ("init"
                      \* before any)
    args,             \* its arguments
    result            \* what it returned to its caller

vars == <<config, base_url, overflow_checks, served, picked, calls, op, args, result>>

----------------------------------------------------------------------------
(* Option<T> *)

None == [some |-> FALSE]

Some(v) == [some |-> TRUE, val |-> v]

----------------------------------------------------------------------------
(* Strings as byte sequences *)

AsciiChars ==
    <<" ", "!", "\"", "#", "$", "%", "&", "'", "(", ")", "*", "+", ",", "-",
      ".", "/", "0", "1", "2", "3", "4", "5", "6", "7", "8", "9", ":", ";",
      "<", "=", ">", "?", "@", "A", "B", "C", "D", "E", "F", "G", "H", "I",
      "J", "K", "L", "M", "N", "O", "P", "Q", "R", "S", "T", "U", "V", "W",
      "X", "Y", "Z", "[", "\\", "]", "^", "_", "grave", "a", "b", "c", "d", "e",
      "f", "g", "h", "i", "j", "k", "l", "m", "n", "o", "p", "q", "r", "s",
      "t", "u", "v", "w", "x", "y", "z", "{", "|", "}", "~">>

\* The byte of a printable ASCII character (" " is 32, "~" is 126); the
\* grave accent, byte 96, is written "grave".
OrdTable ==
    [c \in {AsciiChars[i] : i \in 1..Len(AsciiChars)} |->
        31 + (CHOOSE i \in 1..Len(AsciiChars) : AsciiChars[i] = c)]

Ord(c) == OrdTable[c]

\* A string literal: the bytes of a sequence of printable ASCII characters.
S(cs) == [i \in 1..Len(cs) |-> Ord(cs[i])]

\* Whether pat occurs in s at position i (1-based).
MatchAt(s, pat, i) ==
    /\ i >= 1
    /\ i + Len(pat) - 1 <= Len(s)
    /\ \A k \in 1..Len(pat) : s[i + k - 1] = pat[k]

\* str::contains
Contains(s, pat) == \E i \in 1..(Len(s) + 1) : MatchAt(s, pat, i)

RECURSIVE Concat(_)
\* The concatenation of a sequence of strings (format! of its pieces).
Concat(ss) == IF ss = <<>> THEN <<>> ELSE Head(ss) \o Concat(Tail(ss))

\* The first position from i on where pat occurs in s; 0 if there is none.
FindFrom(s, pat, i) ==
    LET at == {j \in i..(Len(s) - Len(pat) + 1) : MatchAt(s, pat, j)}
    IN  IF at = {} THEN 0 ELSE CHOOSE j \in at : \A k \in at : j <= k

RECURSIVE SplitFrom(_, _, _)
\* str::split(pat), for a non-empty pat: the pieces of s between the
\* non-overlapping occurrences of pat found left to right, from position i.
SplitFrom(s, pat, i) ==
    LET j == FindFrom(s, pat, i)
    IN  IF j = 0 THEN <<SubSeq(s, i, Len(s))>>
        ELSE <<SubSeq(s, i, j - 1)>> \o SplitFrom(s, pat, j + Len(pat))

Split(s, pat) == SplitFrom(s, pat, 1)

\* Iterator::nth(n) (0-based) on the pieces of a split.
Nth(parts, n) == IF n + 1 <= Len(parts) THEN Some(parts[n + 1]) ELSE None

----------------------------------------------------------------------------
(* Natural numbers of any size, as little-endian 16-bit limbs *)

Base == 2^16

RECURSIVE BigNorm(_)
\* Drop the high zero limbs.
BigNorm(a) ==
    IF a = <<>> THEN <<>>
    ELSE IF a[Len(a)] = 0 THEN BigNorm(SubSeq(a, 1, Len(a) - 1))
    ELSE a

RECURSIVE BigAddC(_, _, _)
BigAddC(a, b, c) ==
    IF a = <<>> /\ b = <<>> THEN (IF c = 0 THEN <<>> ELSE <<c>>)
    ELSE LET x == (IF a = <<>> THEN 0 ELSE Head(a))
                  + (IF b = <<>> THEN 0 ELSE Head(b)) + c
         IN  <<x % Base>>
             \o BigAddC(IF a = <<>> THEN <<>> ELSE Tail(a),
                        IF b = <<>> THEN <<>> ELSE Tail(b), x \div Base)

\* a + b, exact.
BigAdd(a, b) == BigNorm(BigAddC(a, b, 0))

RECURSIVE BigMulC(_, _, _)
BigMulC(a, k, c) ==
    IF a = <<>> THEN (IF c = 0 THEN <<>> ELSE <<c>>)
    ELSE LET x == Head(a) * k + c
         IN  <<x % Base>> \o BigMulC(Tail(a), k, x \div Base)

\* a * k, exact, for a small factor 0 <= k < 2^15.
BigMul(a, k) == BigNorm(BigMulC(a, k, 0))

\* The number n, 0 <= n < 2^31, as limbs.
BigOf(n) == BigNorm(<<n % Base, n \div Base>>)

\* Whether the number fits an unsigned integer of that many 16-bit limbs.
Fits(a, limbs) == Len(a) <= limbs

\* The number reduced modulo 2^(16 * limbs): a cast to a narrower unsigned
\* type, or the result of wrapping arithmetic.
Truncate(a, limbs) ==
    BigNorm(SubSeq(a, 1, IF Len(a) < limbs THEN Len(a) ELSE limbs))

\* The limbs of u64 and of u32.
U64Limbs == 64 \div 16

U32Limbs == 32 \div 16

----------------------------------------------------------------------------
(* parse_time_to_seconds, src/src/sonos/mod.rs:242-260 *)

Digit0 == Ord("0")

Digit9 == Ord("9")

IsDigit(b) == b >= Digit0 /\ b <= Digit9

RECURSIVE ParseDigits(_, _)
\* The digit loop of u64::from_str: acc * 10 + digit with checked
\* arithmetic; a byte that is no digit, or a value beyond u64, is an error.
ParseDigits(ds, acc) ==
    IF ds = <<>> THEN Some(acc)
    ELSE IF ~IsDigit(Head(ds)) THEN None
    ELSE LET m == BigMul(acc, 10)
             n == BigAdd(m, BigOf(Head(ds) - Digit0))
         IN  IF ~Fits(m, U64Limbs) \/ ~Fits(n, U64Limbs) THEN None
             ELSE ParseDigits(Tail(ds), n)

PlusSign == S(<<"+">>)

MinusSign == S(<<"-">>)

\* str::parse::<u64>().ok(): an optional leading "+", then at least one
\* decimal digit and nothing else; None for every error.
ParseU64(s) ==
    IF s = <<>> THEN None
    ELSE IF s = PlusSign \/ s = MinusSign THEN None
    ELSE ParseDigits(IF <<Head(s)>> = PlusSign THEN Tail(s) ELSE s, <<>>)

\* What a function call did: it returned a value, or it panicked.
Returned(v) == [panicked |-> FALSE, ret |-> v]

Panicked == [panicked |-> TRUE]

\* minutes * 60 + seconds in u64 arithmetic (line 249).
MinSec(checks, m, s) ==
    LET t1 == BigMul(m, 60)
        t2 == BigAdd(Truncate(t1, U64Limbs), s)
    IN  IF (~Fits(t1, U64Limbs) \/ ~Fits(t2, U64Limbs)) /\ checks
        THEN Panicked
        ELSE Returned(Some(Truncate(t2, U64Limbs)))

\* hours * 3600 + minutes * 60 + seconds in u64 arithmetic (line 256).
HourMinSec(checks, h, m, s) ==
    LET t1 == BigMul(h, 3600)
        t2 == BigMul(m, 60)
        t3 == BigAdd(Truncate(t1, U64Limbs), Truncate(t2, U64Limbs))
        t4 == BigAdd(Truncate(t3, U64Limbs), s)
    IN  IF (\E t \in {t1, t2, t3, t4} : ~Fits(t, U64Limbs)) /\ checks
        THEN Panicked
        ELSE Returned(Some(Truncate(t4, U64Limbs)))

Colon == S(<<":">>)

\* parse_time_to_seconds(time_str) in a build with or without overflow
\* checks: Returned(None), Returned(Some(seconds)) or Panicked.
parse_time_to_seconds(checks, time_str) ==
    LET parts == Split(time_str, Colon)
    IN  IF Len(parts) = 2 THEN
            LET minutes == ParseU64(parts[1])
                seconds == ParseU64(parts[2])
            IN  IF ~minutes.some THEN Returned(None)
                ELSE IF ~seconds.some THEN Returned(None)
                ELSE MinSec(checks, minutes.val, seconds.val)
        ELSE IF Len(parts) = 3 THEN
            LET hours == ParseU64(parts[1])
                minutes == ParseU64(parts[2])
                seconds == ParseU64(parts[3])
            IN  IF ~hours.some THEN Returned(None)
                ELSE IF ~minutes.some THEN Returned(None)
                ELSE IF ~seconds.some THEN Returned(None)
                ELSE HourMinSec(checks, hours.val, minutes.val, seconds.val)
        ELSE Returned(None)

----------------------------------------------------------------------------
(* Result<T, E> *)

Ok(v) == [ok |-> TRUE, val |-> v]

Err(e) == [ok |-> FALSE, err |-> e]

----------------------------------------------------------------------------
(* Percent-encoding: urlencoding::encode and urlencoding::decode, called   *)
(* at src/src/sonos/mod.rs:143 and :130                                    *)

\* The bytes of the hexadecimal digits encode writes.
HexDigits == S(<<"0", "1", "2", "3", "4", "5", "6", "7", "8", "9",
                 "A", "B", "C", "D", "E", "F">>)

UpperA == Ord("A")

UpperF == Ord("F")

UpperZ == Ord("Z")

LowerA == Ord("a")

LowerF == Ord("f")

LowerZ == Ord("z")

Percent == Ord("%")

UnreservedMarks == {Ord("-"), Ord("."), Ord("_"), Ord("~")}

\* The value of a hexadecimal digit byte, upper or lower case; -1 if none.
FromHexDigit(b) ==
    IF IsDigit(b) THEN b - Digit0
    ELSE IF b >= UpperA /\ b <= UpperF THEN b - UpperA + 10
    ELSE IF b >= LowerA /\ b <= LowerF THEN b - LowerA + 10
    ELSE -1

\* The bytes encode leaves as they are: ASCII letters, digits, - . _ ~
IsUnreserved(b) ==
    \/ IsDigit(b)
    \/ (b >= UpperA /\ b <= UpperZ)
    \/ (b >= LowerA /\ b <= LowerZ)
    \/ b \in UnreservedMarks

EncodeByte(b) ==
    IF IsUnreserved(b) THEN <<b>>
    ELSE <<Percent, HexDigits[(b \div 16) + 1], HexDigits[(b % 16) + 1]>>

RECURSIVE UrlEncode(_)
\* urlencoding::encode: every byte but the unreserved ones becomes %XX.
UrlEncode(s) == IF s = <<>> THEN <<>> ELSE EncodeByte(Head(s)) \o UrlEncode(Tail(s))

RECURSIVE DecodeBinary(_)
\* urlencoding::decode_binary: %XX with two hexadecimal digits becomes the
\* byte XX; a % not followed by two hexadecimal digits stays as it is.
DecodeBinary(s) ==
    IF s = <<>> THEN <<>>
    ELSE IF /\ Head(s) = Percent
            /\ Len(s) >= 3
            /\ FromHexDigit(s[2]) >= 0
            /\ FromHexDigit(s[3]) >= 0
         THEN <<FromHexDigit(s[2]) * 16 + FromHexDigit(s[3])>>
              \o DecodeBinary(SubSeq(s, 4, Len(s)))
         ELSE <<Head(s)>> \o DecodeBinary(Tail(s))

IsCont(s, i) == i <= Len(s) /\ s[i] >= 128 /\ s[i] <= 191

InRange(s, i, lo, hi) == i <= Len(s) /\ s[i] >= lo /\ s[i] <= hi

RECURSIVE IsUtf8From(_, _)
\* String::from_utf8's validation, from position i on.
IsUtf8From(s, i) ==
    IF i > Len(s) THEN TRUE
    ELSE LET b == s[i] IN
         IF b <= 127 THEN IsUtf8From(s, i + 1)
         ELSE IF b >= 194 /\ b <= 223
              THEN IsCont(s, i + 1) /\ IsUtf8From(s, i + 2)
         ELSE IF b >= 224 /\ b <= 239
              THEN /\ InRange(s, i + 1, IF b = 224 THEN 160 ELSE 128,
                                        IF b = 237 THEN 159 ELSE 191)
                   /\ IsCont(s, i + 2)
                   /\ IsUtf8From(s, i + 3)
         ELSE IF b >= 240 /\ b <= 244
              THEN /\ InRange(s, i + 1, IF b = 240 THEN 144 ELSE 128,
                                        IF b = 244 THEN 143 ELSE 191)
                   /\ IsCont(s, i + 2)
                   /\ IsCont(s, i + 3)
                   /\ IsUtf8From(s, i + 4)
         ELSE FALSE

IsUtf8(s) == IsUtf8From(s, 1)

\* urlencoding::decode: the decoded bytes as a String, or FromUtf8Error.
UrlDecode(s) ==
    LET bytes == DecodeBinary(s)
    IN  IF IsUtf8(bytes) THEN Ok(bytes) ELSE Err("FromUtf8Error")

----------------------------------------------------------------------------
(* serde_json::Value *)

JNull == [t |-> "null"]

JStr(s) == [t |-> "string", str |-> s]

\* An integer number.
JNum(n) == [t |-> "number", num |-> n]

\* A number with a fraction.
JFloat == [t |-> "float"]

\* An object, from its members: a set of <<key, value>> with distinct keys.
JObj(members) ==
    [t |-> "object",
     obj |-> [k \in {m[1] : m \in members} |->
                 (CHOOSE m \in members : m[1] = k)[2]]]

JArr(a) == [t |-> "array", arr |-> a]

\* Value::get(key): a member of an object; None for any other value.
JGet(v, key) ==
    IF v.t = "object" /\ key \in DOMAIN v.obj THEN Some(v.obj[key]) ELSE None

\* Value::as_str
as_str(v) == IF v.t = "string" THEN Some(v.str) ELSE None

\* Value::as_u64: Some for an integer that is not negative.
as_u64(v) == IF v.t = "number" /\ v.num >= 0 THEN Some(v.num) ELSE None

\* Value::as_array
as_array(v) == IF v.t = "array" THEN Some(v.arr) ELSE None

\* opt.and_then(|x| x.get(key))
AndGet(opt, key) == IF opt.some THEN JGet(opt.val, key) ELSE None

\* opt.and_then(|x| x.as_str())
AndStr(opt) == IF opt.some THEN as_str(opt.val) ELSE None

\* opt.and_then(|x| x.as_u64())
AndU64(opt) == IF opt.some THEN as_u64(opt.val) ELSE None

----------------------------------------------------------------------------
(* The backend's side of one HTTP exchange *)

\* send() failed: no response arrived.
TransportError(desc) == [kind |-> "transport_error", desc |-> desc]

\* send() returned a response with this status and body.
Response(status, body) == [kind |-> "response", status |-> status, body |-> body]

\* A body that is the JSON text of the value v.
JsonBody(v) == [kind |-> "json", value |-> v]

\* A body that is this text, which is not JSON.
TextBody(text) == [kind |-> "text", text |-> text]

\* A body whose transfer fails before its end.
BrokenBody == [kind |-> "broken"]

\* A body the operation does not read.
Unread == [kind |-> "unread"]

\* What an await has not yielded yet: the answer to a request that was
\* sent, or the body of a response whose status arrived.
Awaited == [kind |-> "awaited"]

\* The operation returned before it sent any request.
NotContacted == [kind |-> "not_contacted"]

\* StatusCode::is_success
is_success(status) == status >= 200 /\ status <= 299

\* Response::json::<Value>()
response_json(body) ==
    IF body.kind = "json" THEN Ok(body.value) ELSE Err("reqwest::Error")

\* Response::text(), for the bodies the model sends in answer to a POST
\* (text or broken).
response_text(body) ==
    IF body.kind = "text" THEN Ok(body.text) ELSE Err("reqwest::Error")

\* Result<String, _>::unwrap_or_default
unwrap_or_default(r) == IF r.ok THEN r.val ELSE <<>>

RECURSIVE Decimal(_)
\* The decimal digits of a natural number.
Decimal(n) ==
    IF n < 10 THEN <<Digit0 + n>>
    ELSE Append(Decimal(n \div 10), Digit0 + (n % 10))

\* The reason phrases http::StatusCode registers (crate http 1.2 and
\* later), by status.
ReasonPhrases ==
    (100 :> S(<<"C", "o", "n", "t", "i", "n", "u", "e">>)) @@
    (101 :> S(<<"S", "w", "i", "t", "c", "h", "i", "n", "g", " ", "P", "r", "o", "t", "o", "c", "o", "l", "s">>)) @@
    (102 :> S(<<"P", "r", "o", "c", "e", "s", "s", "i", "n", "g">>)) @@
    (103 :> S(<<"E", "a", "r", "l", "y", " ", "H", "i", "n", "t", "s">>)) @@
    (200 :> S(<<"O", "K">>)) @@
    (201 :> S(<<"C", "r", "e", "a", "t", "e", "d">>)) @@
    (202 :> S(<<"A", "c", "c", "e", "p", "t", "e", "d">>)) @@
    (203 :> S(<<"N", "o", "n", " ", "A", "u", "t", "h", "o", "r", "i", "t", "a", "t", "i", "v", "e", " ", "I", "n", "f", "o", "r", "m", "a", "t", "i", "o", "n">>)) @@
    (204 :> S(<<"N", "o", " ", "C", "o", "n", "t", "e", "n", "t">>)) @@
    (205 :> S(<<"R", "e", "s", "e", "t", " ", "C", "o", "n", "t", "e", "n", "t">>)) @@
    (206 :> S(<<"P", "a", "r", "t", "i", "a", "l", " ", "C", "o", "n", "t", "e", "n", "t">>)) @@
    (207 :> S(<<"M", "u", "l", "t", "i", "-", "S", "t", "a", "t", "u", "s">>)) @@
    (208 :> S(<<"A", "l", "r", "e", "a", "d", "y", " ", "R", "e", "p", "o", "r", "t", "e", "d">>)) @@
    (226 :> S(<<"I", "M", " ", "U", "s", "e", "d">>)) @@
    (300 :> S(<<"M", "u", "l", "t", "i", "p", "l", "e", " ", "C", "h", "o", "i", "c", "e", "s">>)) @@
    (301 :> S(<<"M", "o", "v", "e", "d", " ", "P", "e", "r", "m", "a", "n", "e", "n", "t", "l", "y">>)) @@
    (302 :> S(<<"F", "o", "u", "n", "d">>)) @@
    (303 :> S(<<"S", "e", "e", " ", "O", "t", "h", "e", "r">>)) @@
    (304 :> S(<<"N", "o", "t", " ", "M", "o", "d", "i", "f", "i", "e", "d">>)) @@
    (305 :> S(<<"U", "s", "e", " ", "P", "r", "o", "x", "y">>)) @@
    (307 :> S(<<"T", "e", "m", "p", "o", "r", "a", "r", "y", " ", "R", "e", "d", "i", "r", "e", "c", "t">>)) @@
    (308 :> S(<<"P", "e", "r", "m", "a", "n", "e", "n", "t", " ", "R", "e", "d", "i", "r", "e", "c", "t">>)) @@
    (400 :> S(<<"B", "a", "d", " ", "R", "e", "q", "u", "e", "s", "t">>)) @@
    (401 :> S(<<"U", "n", "a", "u", "t", "h", "o", "r", "i", "z", "e", "d">>)) @@
    (402 :> S(<<"P", "a", "y", "m", "e", "n", "t", " ", "R", "e", "q", "u", "i", "r", "e", "d">>)) @@
    (403 :> S(<<"F", "o", "r", "b", "i", "d", "d", "e", "n">>)) @@
    (404 :> S(<<"N", "o", "t", " ", "F", "o", "u", "n", "d">>)) @@
    (405 :> S(<<"M", "e", "t", "h", "o", "d", " ", "N", "o", "t", " ", "A", "l", "l", "o", "w", "e", "d">>)) @@
    (406 :> S(<<"N", "o", "t", " ", "A", "c", "c", "e", "p", "t", "a", "b", "l", "e">>)) @@
    (407 :> S(<<"P", "r", "o", "x", "y", " ", "A", "u", "t", "h", "e", "n", "t", "i", "c", "a", "t", "i", "o", "n", " ", "R", "e", "q", "u", "i", "r", "e", "d">>)) @@
    (408 :> S(<<"R", "e", "q", "u", "e", "s", "t", " ", "T", "i", "m", "e", "o", "u", "t">>)) @@
    (409 :> S(<<"C", "o", "n", "f", "l", "i", "c", "t">>)) @@
    (410 :> S(<<"G", "o", "n", "e">>)) @@
    (411 :> S(<<"L", "e", "n", "g", "t", "h", " ", "R", "e", "q", "u", "i", "r", "e", "d">>)) @@
    (412 :> S(<<"P", "r", "e", "c", "o", "n", "d", "i", "t", "i", "o", "n", " ", "F", "a", "i", "l", "e", "d">>)) @@
    (413 :> S(<<"P", "a", "y", "l", "o", "a", "d", " ", "T", "o", "o", " ", "L", "a", "r", "g", "e">>)) @@
    (414 :> S(<<"U", "R", "I", " ", "T", "o", "o", " ", "L", "o", "n", "g">>)) @@
    (415 :> S(<<"U", "n", "s", "u", "p", "p", "o", "r", "t", "e", "d", " ", "M", "e", "d", "i", "a", " ", "T", "y", "p", "e">>)) @@
    (416 :> S(<<"R", "a", "n", "g", "e", " ", "N", "o", "t", " ", "S", "a", "t", "i", "s", "f", "i", "a", "b", "l", "e">>)) @@
    (417 :> S(<<"E", "x", "p", "e", "c", "t", "a", "t", "i", "o", "n", " ", "F", "a", "i", "l", "e", "d">>)) @@
    (418 :> S(<<"I", "'", "m", " ", "a", " ", "t", "e", "a", "p", "o", "t">>)) @@
    (421 :> S(<<"M", "i", "s", "d", "i", "r", "e", "c", "t", "e", "d", " ", "R", "e", "q", "u", "e", "s", "t">>)) @@
    (422 :> S(<<"U", "n", "p", "r", "o", "c", "e", "s", "s", "a", "b", "l", "e", " ", "E", "n", "t", "i", "t", "y">>)) @@
    (423 :> S(<<"L", "o", "c", "k", "e", "d">>)) @@
    (424 :> S(<<"F", "a", "i", "l", "e", "d", " ", "D", "e", "p", "e", "n", "d", "e", "n", "c", "y">>)) @@
    (425 :> S(<<"T", "o", "o", " ", "E", "a", "r", "l", "y">>)) @@
    (426 :> S(<<"U", "p", "g", "r", "a", "d", "e", " ", "R", "e", "q", "u", "i", "r", "e", "d">>)) @@
    (428 :> S(<<"P", "r", "e", "c", "o", "n", "d", "i", "t", "i", "o", "n", " ", "R", "e", "q", "u", "i", "r", "e", "d">>)) @@
    (429 :> S(<<"T", "o", "o", " ", "M", "a", "n", "y", " ", "R", "e", "q", "u", "e", "s", "t", "s">>)) @@
    (431 :> S(<<"R", "e", "q", "u", "e", "s", "t", " ", "H", "e", "a", "d", "e", "r", " ", "F", "i", "e", "l", "d", "s", " ", "T", "o", "o", " ", "L", "a", "r", "g", "e">>)) @@
    (451 :> S(<<"U", "n", "a", "v", "a", "i", "l", "a", "b", "l", "e", " ", "F", "o", "r", " ", "L", "e", "g", "a", "l", " ", "R", "e", "a", "s", "o", "n", "s">>)) @@
    (500 :> S(<<"I", "n", "t", "e", "r", "n", "a", "l", " ", "S", "e", "r", "v", "e", "r", " ", "E", "r", "r", "o", "r">>)) @@
    (501 :> S(<<"N", "o", "t", " ", "I", "m", "p", "l", "e", "m", "e", "n", "t", "e", "d">>)) @@
    (502 :> S(<<"B", "a", "d", " ", "G", "a", "t", "e", "w", "a", "y">>)) @@
    (503 :> S(<<"S", "e", "r", "v", "i", "c", "e", " ", "U", "n", "a", "v", "a", "i", "l", "a", "b", "l", "e">>)) @@
    (504 :> S(<<"G", "a", "t", "e", "w", "a", "y", " ", "T", "i", "m", "e", "o", "u", "t">>)) @@
    (505 :> S(<<"H", "T", "T", "P", " ", "V", "e", "r", "s", "i", "o", "n", " ", "N", "o", "t", " ", "S", "u", "p", "p", "o", "r", "t", "e", "d">>)) @@
    (506 :> S(<<"V", "a", "r", "i", "a", "n", "t", " ", "A", "l", "s", "o", " ", "N", "e", "g", "o", "t", "i", "a", "t", "e", "s">>)) @@
    (507 :> S(<<"I", "n", "s", "u", "f", "f", "i", "c", "i", "e", "n", "t", " ", "S", "t", "o", "r", "a", "g", "e">>)) @@
    (508 :> S(<<"L", "o", "o", "p", " ", "D", "e", "t", "e", "c", "t", "e", "d">>)) @@
    (510 :> S(<<"N", "o", "t", " ", "E", "x", "t", "e", "n", "d", "e", "d">>)) @@
    (511 :> S(<<"N", "e", "t", "w", "o", "r", "k", " ", "A", "u", "t", "h", "e", "n", "t", "i", "c", "a", "t", "i", "o", "n", " ", "R", "e", "q", "u", "i", "r", "e", "d">>))

ReasonUnknown == S(<<"<", "u", "n", "k", "n", "o", "w", "n", " ", "s", "t", "a", "t", "u", "s", " ", "c", "o", "d", "e", ">">>)

\* StatusCode::canonical_reason().unwrap_or("<unknown status code>"): the
\* registered phrase, or the fallback for a status that has none.
CanonicalReason(status) ==
    IF status \in DOMAIN ReasonPhrases THEN ReasonPhrases[status]
    ELSE ReasonUnknown

Space == S(<<" ">>)

\* The Display of a StatusCode: its number, a space, its reason.
StatusDisplay(status) ==
    Concat(<<Decimal(status), Space, CanonicalReason(status)>>)

----------------------------------------------------------------------------
(* SonosConfig, src/src/app/config/sonos.rs *)

DEFAULT_SONOS_API_URL ==
    S(<<"h", "t", "t", "p", ":", "/", "/", "1", "9", "2", ".", "1", "6", "8", ".",
        "0", ".", "5", ":", "5", "0", "0", "5">>)

DEFAULT_SONOS_MP3_SERVER ==
    S(<<"1", "9", "2", ".", "1", "6", "8", ".", "0", ".", "6", "/", "m", "p", "3">>)

\* Option<String>::unwrap_or_else(|| default)
unwrap_or_else(opt, default) == IF opt.some THEN opt.val ELSE default

get_api_url(cfg) == unwrap_or_else(cfg.api_url, DEFAULT_SONOS_API_URL)

\* get_mp3_server falling back to the other default.
get_mp3_server_api_default(cfg) ==
    unwrap_or_else(cfg.mp3_server, DEFAULT_SONOS_API_URL)

get_mp3_server(cfg) == unwrap_or_else(cfg.mp3_server, DEFAULT_SONOS_MP3_SERVER)

----------------------------------------------------------------------------
(* SonosService::get_speakers, src/src/sonos/mod.rs:77-120 *)

HttpRequest(method, url) == [method |-> method, url |-> url]

\* Line 78.
ZonesPath == S(<<"/", "z", "o", "n", "e", "s">>)

ZonesUrl(base) == base \o ZonesPath

\* Lines 94-97: coordinator.state.volume as a u64, cast to u8.
ZoneVolume(coordinator) ==
    LET v == AndU64(AndGet(JGet(coordinator, "state"), "volume"))
    IN  IF v.some THEN Some(v.val % 256) ELSE None

SonosSpeaker(id, name, available, volume) ==
    [id |-> id, name |-> name, available |-> available, volume |-> volume]

\* The loop body naming the speaker by the coordinator's uuid.
ZoneSpeakersIdFromUuid(zone) ==
    LET coordinator == JGet(zone, "coordinator")
    IN  IF ~coordinator.some THEN <<>>
        ELSE LET uuid == AndStr(JGet(coordinator.val, "uuid"))
                 room_name == AndStr(JGet(coordinator.val, "roomName"))
             IN  IF uuid.some /\ room_name.some
                 THEN <<SonosSpeaker(uuid.val, room_name.val, TRUE,
                                     ZoneVolume(coordinator.val))>>
                 ELSE <<>>

\* Lines 89-106, the body of the loop: the speakers one zone adds (none or
\* one).
ZoneSpeakers(zone) ==
    LET coordinator == JGet(zone, "coordinator")
    IN  IF ~coordinator.some THEN <<>>
        ELSE LET uuid == AndStr(JGet(coordinator.val, "uuid"))
                 room_name == AndStr(JGet(coordinator.val, "roomName"))
             IN  IF uuid.some /\ room_name.some
                 THEN <<SonosSpeaker(room_name.val, room_name.val, TRUE,
                                     ZoneVolume(coordinator.val))>>
                 ELSE <<>>

RECURSIVE PushSpeakers(_, _)
\* Lines 86-108: the loop over the zones, pushing onto speakers.
PushSpeakers(speakers, zones_array) ==
    IF zones_array = <<>> THEN speakers
    ELSE PushSpeakers(speakers \o ZoneSpeakers(Head(zones_array)),
                      Tail(zones_array))

\* Lines 81-119: what get_speakers returns for what the backend did.
get_speakers(o) ==
    IF o.kind = "transport_error" THEN Returned(Ok(<<>>))
    ELSE IF is_success(o.status) THEN
        LET zones == response_json(o.body)
        IN  IF ~zones.ok THEN Returned(Err(zones.err))
            ELSE LET zones_array == as_array(zones.val)
                 IN  Returned(Ok(IF zones_array.some
                                 THEN PushSpeakers(<<>>, zones_array.val)
                                 ELSE <<>>))
    ELSE Returned(Ok(<<>>))

----------------------------------------------------------------------------
(* SonosService::play_track, src/src/sonos/mod.rs:124-170 *)

AudioMarker == S(<<"/", "a", "u", "d", "i", "o", "/">>)

\* Lines 129-134: the track path, or the error of the decoding.
TrackPath(track_url) ==
    LET path_part == Nth(Split(track_url, AudioMarker), 1)
    IN  IF path_part.some THEN UrlDecode(path_part.val) ELSE Ok(track_url)

CifsScheme ==
    S(<<"x", "-", "f", "i", "l", "e", "-", "c", "i", "f", "s", ":", "/", "/">>)

Slash == S(<<"/">>)

\* Line 137.
CifsUri(file_server, track_path) ==
    Concat(<<CifsScheme, file_server, Slash, track_path>>)

SetUriSegment ==
    S(<<"/", "s", "e", "t", "a", "v", "t", "r", "a", "n", "s", "p", "o", "r", "t",
        "u", "r", "i", "/">>)

\* Lines 140-143.
PlayUrl(base, speaker_id, cifs_uri) ==
    Concat(<<base, Slash, speaker_id, SetUriSegment, UrlEncode(cifs_uri)>>)

SonosResponse(success, message) == [success |-> success, message |-> message]

TrackStarted ==
    S(<<"T", "r", "a", "c", "k", " ", "s", "t", "a", "r", "t", "e", "d", " ",
        "p", "l", "a", "y", "i", "n", "g", " ", "o", "n", " ", "S", "o", "n", "o", "s">>)

HttpErrorPrefix ==
    S(<<"H", "T", "T", "P", " ", "e", "r", "r", "o", "r", " ">>)

ConnectionErrorPrefix ==
    S(<<"C", "o", "n", "n", "e", "c", "t", "i", "o", "n", " ", "e", "r", "r", "o", "r",
        ":", " ">>)

ColonSpace == S(<<":", " ">>)

\* The response of play_track with the body left out of the error message.
PlayResponseNoBody(o) ==
    IF o.kind = "transport_error"
    THEN SonosResponse(FALSE, ConnectionErrorPrefix \o o.desc)
    ELSE IF is_success(o.status) THEN SonosResponse(TRUE, TrackStarted)
    ELSE SonosResponse(FALSE,
             Concat(<<HttpErrorPrefix, StatusDisplay(o.status), ColonSpace>>))

\* Lines 147-169: the SonosResponse for what the backend did with the POST.
PlayResponse(o) ==
    IF o.kind = "transport_error"
    THEN SonosResponse(FALSE, ConnectionErrorPrefix \o o.desc)
    ELSE IF is_success(o.status) THEN SonosResponse(TRUE, TrackStarted)
    ELSE LET text == unwrap_or_default(response_text(o.body))
         IN  SonosResponse(FALSE,
                 Concat(<<HttpErrorPrefix, StatusDisplay(o.status),
                          ColonSpace, text>>))

PlayLogPrefix ==
    S(<<"S", "o", "n", "o", "s", " ", "p", "l", "a", "y", " ", "U", "R", "L", ":", " ">>)

\* Line 145: the line println! writes to the standard output.
PlayLog(url) == PlayLogPrefix \o url

\* Lines 136-147: the POST play_track sends once it has the track path.
play_track_request(base, speaker_id, file_server, track_path) ==
    HttpRequest("POST", PlayUrl(base, speaker_id, CifsUri(file_server, track_path)))

\* Lines 129-169: what play_track returns, from the track path (or the error
\* of line 130, which the ? operator returns before any request is sent) and
\* from what the backend did with the request.
play_track(track_path, o) ==
    IF ~track_path.ok THEN Returned(Err(track_path.err))
    ELSE Returned(Ok(PlayResponse(o)))

----------------------------------------------------------------------------
(* SonosService::get_state, src/src/sonos/mod.rs:173-238 *)

StatePath == S(<<"/", "s", "t", "a", "t", "e">>)

\* Line 174.
StateUrl(base, speaker_id) == Concat(<<base, Slash, speaker_id, StatePath>>)

SonosState(is_playing, artist, title, position, duration) ==
    [is_playing |-> is_playing, artist |-> artist, title |-> title,
     position |-> position, duration |-> duration]

EmptyState == SonosState(FALSE, None, None, None, None)

Playing == S(<<"P", "L", "A", "Y", "I", "N", "G">>)

\* Lines 182-185.
IsPlaying(state_data) ==
    LET s == AndStr(JGet(state_data, "playbackState"))
    IN  IF s.some THEN s.val = Playing ELSE FALSE

\* Lines 187-195: currentTrack.<key> when it is a string.
TrackText(state_data, key) ==
    AndStr(AndGet(JGet(state_data, "currentTrack"), key))

\* Lines 200-201 and 206-207: the seconds of an optional time string,
\* cast to u32; the call panics when the parser does.
SecondsOf(checks, time) ==
    IF ~time.some THEN Returned(None)
    ELSE LET p == parse_time_to_seconds(checks, time.val)
         IN  IF p.panicked THEN Panicked
             ELSE IF ~p.ret.some THEN Returned(None)
             ELSE Returned(Some(Truncate(p.ret.val, U32Limbs)))

\* Lines 182-215: the SonosState built from the JSON of a success response.
StateOf(checks, state_data) ==
    LET position == SecondsOf(checks, AndStr(JGet(state_data, "relTime")))
        duration == SecondsOf(checks, TrackText(state_data, "duration"))
    IN  IF position.panicked \/ duration.panicked THEN Panicked
        ELSE Returned(Ok(SonosState(IsPlaying(state_data),
                                    TrackText(state_data, "artist"),
                                    TrackText(state_data, "title"),
                                    position.ret, duration.ret)))

\* Lines 176-237: what get_state returns for what the backend did.
get_state(checks, o) ==
    IF o.kind = "transport_error" THEN Returned(Ok(EmptyState))
    ELSE IF is_success(o.status) THEN
        LET state_data == response_json(o.body)
        IN  IF ~state_data.ok THEN Returned(Err(state_data.err))
            ELSE StateOf(checks, state_data.val)
    ELSE Returned(Ok(EmptyState))

----------------------------------------------------------------------------
(* Inputs: the bounded sets the model draws from *)

\* The longest track URL, in pieces.
MaxPieces == 2

\* The longest zone list.
MaxZones == 2

\* The most colon-separated fields of a time string.
MaxFields == 4

\* The number of configured hosts besides the defaults.
MaxHosts == 5

\* The most calls of the async operations pending or not yet taken.
MaxCalls == 2

\* The sequences over a set, up to a length.
SeqsUpTo(set, n) == UNION {[1..k -> set] : k \in 0..n}

RECURSIVE Join(_, _)
\* The strings of a non-empty sequence, with sep between them.
Join(ss, sep) ==
    IF Len(ss) = 1 THEN ss[1] ELSE Concat(<<ss[1], sep, Join(Tail(ss), sep)>>)

OptionsOf(set) == {None} \cup {Some(x) : x \in set}

NoArgs == [none |-> TRUE]

NoResult == [none |-> TRUE]

(* Configurations *)

HttpH == S(<<"h", "t", "t", "p", ":", "/", "/", "h">>)

Nas == S(<<"n", "a", "s">>)

SlashMp3 == S(<<"/", "m", "p", "3">>)

CustomApiUrl(n) == HttpH \o Decimal(n)

CustomMp3Server(n) == Concat(<<Nas, Decimal(n), SlashMp3>>)

ApiUrls == {DEFAULT_SONOS_API_URL} \cup {CustomApiUrl(n) : n \in 1..MaxHosts}

Mp3Servers == {DEFAULT_SONOS_MP3_SERVER} \cup {CustomMp3Server(n) : n \in 1..MaxHosts}

SonosConfig(api_url, mp3_server) == [api_url |-> api_url, mp3_server |-> mp3_server]

Configs == {SonosConfig(a, m) : a \in OptionsOf(ApiUrls), m \in OptionsOf(Mp3Servers)}

DefaultConfig == SonosConfig(None, None)

\* The configurations a gateway is built from: nothing set, and both set.
ServiceConfigs ==
    {DefaultConfig, SonosConfig(Some(CustomApiUrl(1)), Some(CustomMp3Server(1)))}

Kitchen == S(<<"K", "i", "t", "c", "h", "e", "n">>)

Bath == S(<<"B", "a", "t", "h">>)

Office == S(<<"O", "f", "f", "i", "c", "e">>)

SpeakerIds == {Kitchen, Bath}

(* Time strings: fields joined by colons *)

Field0 == S(<<"0">>)

Field59 == S(<<"5", "9">>)

Field007 == S(<<"0", "0", "7">>)

FieldPlus5 == S(<<"+", "5">>)

FieldX == S(<<"x">>)

\* 1193047 hours are more than 2^32 seconds.
FieldOver32 == S(<<"1", "1", "9", "3", "0", "4", "7">>)

\* 5124095576030432 hours are more than 2^64 seconds.
FieldOver64 == S(<<"5", "1", "2", "4", "0", "9", "5", "5", "7", "6", "0", "3", "0", "4", "3", "2">>)

\* u64::MAX, and u64::MAX + 1.
FieldMaxU64 == S(<<"1", "8", "4", "4", "6", "7", "4", "4", "0", "7", "3", "7", "0", "9", "5", "5", "1", "6", "1", "5">>)

FieldPastU64 == S(<<"1", "8", "4", "4", "6", "7", "4", "4", "0", "7", "3", "7", "0", "9", "5", "5", "1", "6", "1", "6">>)

TimeFields ==
    {Field0, Field59, Field007, <<>>, FieldPlus5, FieldX, FieldOver32,
     FieldOver64, FieldMaxU64, FieldPastU64}

\* The time string of a list of fields is Join(fields, Colon): no field
\* holds a colon, so the fields of the string are those of the list.
TimeFieldLists == SeqsUpTo(TimeFields, MaxFields) \ {<<>>}

(* Track URLs: pieces one after the other *)

\* A Polaris URL up to and including the marker.
PolarisAudio == S(<<"h", "t", "t", "p", ":", "/", "/", "h", "o", "s", "t", "/", "a", "p", "i", "/", "v", "8", "/", "a", "u", "d", "i", "o", "/">>)

TestSong == S(<<"T", "e", "s", "t", "%", "2", "F", "S", "o", "n", "g", ".", "m", "p", "3">>)

\* The escape of a byte that is no UTF-8 text by itself.
Escape80 == S(<<"%", "8", "0">>)

\* The escapes of the two bytes of a UTF-8 character (e with an acute accent).
EscapeEAcute == S(<<"%", "C", "3", "%", "A", "9">>)

LonePercent == S(<<"%">>)

UrlPieces ==
    {PolarisAudio, AudioMarker, TestSong, Escape80, EscapeEAcute, LonePercent}

TrackUrls == {Concat(ps) : ps \in SeqsUpTo(UrlPieces, MaxPieces)}

\* What a listener may pick: a speaker and a track.
Picks == [speaker_id : SpeakerIds, track_url : TrackUrls]

NoPick == [none |-> TRUE]

(* What the backend does *)

ConnectionRefused == S(<<"c", "o", "n", "n", "e", "c", "t", "i", "o", "n", " ", "r", "e", "f", "u", "s", "e", "d">>)

NoSuchRoom == S(<<"n", "o", " ", "s", "u", "c", "h", " ", "r", "o", "o", "m">>)

Oops == S(<<"o", "o", "p", "s">>)

Html == S(<<"<", "h", "t", "m", "l", ">">>)

TransportErrors == {TransportError(ConnectionRefused)}

\* How send().await can resolve for a POST: an error, or a response with
\* one of these statuses, its body still to come.
PlayAnswers ==
    TransportErrors \cup {Response(s, Awaited) : s \in {200, 204, 404, 503}}

\* The bodies that can follow an error status of a POST.
PlayBodies(status) ==
    IF status = 404 THEN {TextBody(NoSuchRoom)} ELSE {TextBody(<<>>), BrokenBody}

\* How send().await can resolve for a GET.
GetAnswers ==
    TransportErrors \cup {Response(s, Awaited) : s \in {200, 204, 404, 500}}

\* The bodies that can follow a success status of a GET, of a backend that
\* serves the document report: the document as JSON, something that is no
\* JSON, or a transfer that breaks off; nothing after 204 No Content.
GetBodies(status, report) ==
    IF status = 204 THEN {TextBody(<<>>)}
    ELSE {JsonBody(report), TextBody(Html), BrokenBody}

(* Zones as the backend lists them *)

Rincon == S(<<"R", "I", "N", "C", "O", "N", "_", "1">>)

Zone(coordinator) ==
    JObj({<<"coordinator", coordinator>>, <<"members", JArr(<<>>)>>})

Coordinator(uuids, names, states) == JObj(uuids \cup names \cup states)

Uuid == {<<"uuid", JStr(Rincon)>>}

RoomName(name) == {<<"roomName", JStr(name)>>}

Volume(v) == {<<"state", JObj({<<"volume", v>>, <<"mute", JNull>>})>>}

ZoneSamples ==
    {JObj({<<"members", JArr(<<>>)>>}),
     Zone(JNull),
     Zone(Coordinator({}, RoomName(Kitchen), Volume(JNum(20)))),
     Zone(Coordinator(Uuid, {<<"roomName", JNum(7)>>}, {})),
     Zone(Coordinator({<<"uuid", JNum(7)>>}, RoomName(Bath), {})),
     Zone(Coordinator(Uuid, RoomName(Office), {})),
     Zone(Coordinator(Uuid, RoomName(Kitchen), Volume(JNum(100)))),
     Zone(Coordinator(Uuid, RoomName(Bath), Volume(JNum(150)))),
     Zone(Coordinator(Uuid, RoomName(Bath), Volume(JNum(300)))),
     Zone(Coordinator(Uuid, RoomName(Bath), Volume(JFloat)))}

\* The documents a backend may serve at /zones.
ZonesReports ==
    {JNull, JObj({}), Zone(JNull)} \cup
    {JArr(zs) : zs \in SeqsUpTo(ZoneSamples, MaxZones)}

(* Playback states as the backend reports them *)

Time230 == S(<<"0", ":", "0", "2", ":", "3", "0">>)

TimeMin230 == S(<<"0", "2", ":", "3", "0">>)

Time150 == S(<<"1", "5", "0">>)

Time345 == S(<<"0", ":", "0", "3", ":", "4", "5">>)

TimeOver32 == S(<<"1", "1", "9", "3", "0", "4", "7", ":", "0", "0", ":", "0", "0">>)

TimeOver64 == S(<<"5", "1", "2", "4", "0", "9", "5", "5", "7", "6", "0", "3", "0", "4", "3", "2", ":", "0", "0", ":", "0", "0">>)

TimeX == S(<<"x", ":", "1">>)

Stopped == S(<<"S", "T", "O", "P", "P", "E", "D">>)

Mozart == S(<<"M", "o", "z", "a", "r", "t">>)

Sonata == S(<<"S", "o", "n", "a", "t", "a">>)

PlaybackOpts ==
    {{}, {<<"playbackState", JStr(Playing)>>},
     {<<"playbackState", JStr(Stopped)>>}, {<<"playbackState", JNum(1)>>}}

RelTimeOpts ==
    {{}, {<<"relTime", JNum(5)>>}} \cup
    {{<<"relTime", JStr(t)>>} :
        t \in {Time230, TimeMin230, Time150, TimeOver32, TimeOver64}}

\* Artist and title: none, both strings, or an artist that is no string.
NameOpts ==
    {{}, {<<"artist", JStr(Mozart)>>, <<"title", JStr(Sonata)>>},
     {<<"artist", JNum(1)>>, <<"title", JStr(Sonata)>>}}

DurationOpts ==
    {{}, {<<"duration", JNum(240)>>}} \cup
    {{<<"duration", JStr(t)>>} : t \in {Time345, TimeOver32, TimeX}}

TrackOpts ==
    {{}, {<<"currentTrack", JNull>>}} \cup
    {{<<"currentTrack", JObj(n \cup d)>>} : n \in NameOpts, d \in DurationOpts}

StateValues ==
    {JObj(p \cup r \cup c) : p \in PlaybackOpts, r \in RelTimeOpts, c \in TrackOpts}

\* The documents a backend may serve at /{speaker_id}/state.
StateReports == {JNull, JArr(<<>>)} \cup StateValues

----------------------------------------------------------------------------
(* The state machine.  The gateway keeps nothing of a call.  Each of its   *)
(* three operations is an async fn: a call is pending at send().await      *)
(* once its request is out, a second time at the await that reads the      *)
(* body, and between these steps other calls of the same SonosService      *)
(* start, proceed and return.  The two synchronous functions run in one    *)
(* step.                                                                   *)

\* No synchronous function has run, or its caller took the result.
Idle ==
    /\ op = "init"
    /\ args = NoArgs
    /\ result = NoResult

\* A gateway built by SonosService::new(base_url), lines 69-74, for the
\* API URL of its configuration; no call made yet.
Service ==
    /\ base_url = get_api_url(config)
    /\ calls = EmptyBag
    /\ Idle

\* A call of an operation: where it stands (pc is "send" while it is
\* pending at send().await, "body" while it is pending at json().await or
\* text().await, "done" once it returned), the request it issued, what the
\* backend did as far as the call has seen, the line it printed, and what
\* it returned.
Call(name, pc, a, request, outcome, printed, r) ==
    [op |-> name, pc |-> pc, args |-> a, request |-> request,
     outcome |-> outcome, printed |-> printed, result |-> r]

\* The calls pending or not yet taken.
InFlight == BagToSet(calls)

\* Another call may start.
Room == BagCardinality(calls) < MaxCalls

Started(c) == calls' = calls (+) SetToBag({c})

Gone(c) == calls' = calls (-) SetToBag({c})

\* The call c takes a step and becomes d.
Moved(c, d) == calls' = (calls (-) SetToBag({c})) (+) SetToBag({d})

\* The call c waits for the body of the response whose status arrived.
Reading(c, answer) == Moved(c, [c EXCEPT !.pc = "body", !.outcome = answer])

\* The call c returns r, having seen this of the backend.
Finished(c, outcome, r) ==
    Moved(c, [c EXCEPT !.pc = "done", !.outcome = outcome, !.result = r])

\* The answer whose body the operation leaves unread.
HeadOnly(answer) ==
    IF answer.kind = "response" THEN Response(answer.status, Unread) ELSE answer

\* The caller's await yields the result of a call that returned.
Yield ==
    /\ \E c \in InFlight : c.pc = "done" /\ Gone(c)
    /\ UNCHANGED <<config, base_url, overflow_checks, served, picked, op, args, result>>

\* The caller drops the future of a call that is pending at an await: the
\* call goes no further.
Drop ==
    /\ \E c \in InFlight : c.pc \in {"send", "body"} /\ Gone(c)
    /\ UNCHANGED <<config, base_url, overflow_checks, served, picked, op, args, result>>

(* get_speakers *)

\* Lines 77-81: the call builds its URL and sends the GET.
GetSpeakers ==
    /\ Room
    /\ Started(Call("get_speakers", "send", NoArgs,
                    Some(HttpRequest("GET", ZonesUrl(base_url))),
                    Awaited, None, NoResult))
    /\ UNCHANGED <<config, base_url, overflow_checks, served, picked, op, args, result>>

\* Lines 81-83 and 110-118: send().await resolves. An error or an error
\* status ends the call; a success status leaves it at json().await.
GetSpeakersSent ==
    /\ \E c \in InFlight, answer \in GetAnswers :
        /\ c.op = "get_speakers" /\ c.pc = "send"
        /\ IF answer.kind = "response" /\ is_success(answer.status)
           THEN Reading(c, answer)
           ELSE Finished(c, HeadOnly(answer), get_speakers(HeadOnly(answer)))
    /\ UNCHANGED <<config, base_url, overflow_checks, served, picked, op, args, result>>

\* Lines 84-109: json().await resolves.
GetSpeakersBody ==
    /\ \E c \in InFlight :
        /\ c.op = "get_speakers" /\ c.pc = "body"
        /\ \E body \in GetBodies(c.outcome.status, served) :
            LET outcome == Response(c.outcome.status, body)
            IN  Finished(c, outcome, get_speakers(outcome))
    /\ UNCHANGED <<config, base_url, overflow_checks, served, picked, op, args, result>>

NextSpeakers == GetSpeakers \/ GetSpeakersSent \/ GetSpeakersBody \/ Drop \/ Yield

\* A gateway and a backend that serves some list of zones.
InitSpeakers ==
    /\ config \in ServiceConfigs
    /\ Service
    /\ overflow_checks = FALSE
    /\ served \in ZonesReports
    /\ picked = NoPick

SpecSpeakers == InitSpeakers /\ [][NextSpeakers]_vars

(* play_track *)

\* Lines 124-147: the call works out the track path and returns the error
\* of the decoding, or prints its URL and sends the POST. The arguments
\* are the speaker and the track the listener picked and the configured
\* file server.
PlayTrack ==
    /\ Room
    /\ LET file_server == get_mp3_server(config)
            a == [speaker_id |-> picked.speaker_id,
                  track_url |-> picked.track_url,
                  file_server |-> file_server]
            track_path == TrackPath(picked.track_url)
        IN  IF track_path.ok
            THEN LET post == play_track_request(base_url, picked.speaker_id,
                                                file_server, track_path.val)
                 IN  Started(Call("play_track", "send", a, Some(post), Awaited,
                                  Some(PlayLog(post.url)), NoResult))
            ELSE Started(Call("play_track", "done", a, None, NotContacted,
                              None, play_track(track_path, NotContacted)))
    /\ UNCHANGED <<config, base_url, overflow_checks, served, picked, op, args, result>>

\* Lines 147-155 and 163-168: send().await resolves. An error or a success
\* status ends the call; an error status leaves it at text().await.
PlayTrackSent ==
    /\ \E c \in InFlight, answer \in PlayAnswers :
        /\ c.op = "play_track" /\ c.pc = "send"
        /\ IF answer.kind = "response" /\ ~is_success(answer.status)
           THEN Reading(c, answer)
           ELSE Finished(c, HeadOnly(answer),
                         play_track(TrackPath(c.args.track_url), HeadOnly(answer)))
    /\ UNCHANGED <<config, base_url, overflow_checks, served, picked, op, args, result>>

\* Lines 156-160: text().await resolves.
PlayTrackBody ==
    /\ \E c \in InFlight :
        /\ c.op = "play_track" /\ c.pc = "body"
        /\ \E body \in PlayBodies(c.outcome.status) :
            LET outcome == Response(c.outcome.status, body)
            IN  Finished(c, outcome,
                         play_track(TrackPath(c.args.track_url), outcome))
    /\ UNCHANGED <<config, base_url, overflow_checks, served, picked, op, args, result>>

NextPlay == PlayTrack \/ PlayTrackSent \/ PlayTrackBody \/ Drop \/ Yield

\* A gateway and a listener who picked some speaker and track; each call
\* of a behaviour plays that pick.
InitPlay ==
    /\ config \in ServiceConfigs
    /\ Service
    /\ overflow_checks = FALSE
    /\ served = JNull
    /\ picked \in Picks

SpecPlay == InitPlay /\ [][NextPlay]_vars

(* get_state *)

\* Lines 173-176: the call builds its URL and sends the GET.
GetState ==
    /\ Room
    /\ \E speaker_id \in SpeakerIds :
        Started(Call("get_state", "send", [speaker_id |-> speaker_id],
                     Some(HttpRequest("GET", StateUrl(base_url, speaker_id))),
                     Awaited, None, NoResult))
    /\ UNCHANGED <<config, base_url, overflow_checks, served, picked, op, args, result>>

\* Lines 176-178 and 216-236: send().await resolves.
GetStateSent ==
    /\ \E c \in InFlight, answer \in GetAnswers :
        /\ c.op = "get_state" /\ c.pc = "send"
        /\ IF answer.kind = "response" /\ is_success(answer.status)
           THEN Reading(c, answer)
           ELSE Finished(c, HeadOnly(answer),
                         get_state(overflow_checks, HeadOnly(answer)))
    /\ UNCHANGED <<config, base_url, overflow_checks, served, picked, op, args, result>>

\* Lines 179-215: json().await resolves.
GetStateBody ==
    /\ \E c \in InFlight :
        /\ c.op = "get_state" /\ c.pc = "body"
        /\ \E body \in GetBodies(c.outcome.status, served) :
            LET outcome == Response(c.outcome.status, body)
            IN  Finished(c, outcome, get_state(overflow_checks, outcome))
    /\ UNCHANGED <<config, base_url, overflow_checks, served, picked, op, args, result>>

NextState == GetState \/ GetStateSent \/ GetStateBody \/ Drop \/ Yield

\* A gateway, in a build with or without overflow checks, and a backend
\* that serves some playback state.
InitState ==
    /\ config \in ServiceConfigs
    /\ Service
    /\ overflow_checks \in BOOLEAN
    /\ served \in StateReports
    /\ picked = NoPick

SpecState == InitState /\ [][NextState]_vars

(* The synchronous functions *)

\* The caller takes the result of the synchronous call it made.
Return ==
    /\ op # "init"
    /\ op' = "init"
    /\ args' = NoArgs
    /\ result' = NoResult
    /\ UNCHANGED <<config, base_url, overflow_checks, served, picked, calls>>

\* The duration parser alone, on every time string.
ParseTime ==
    /\ op = "init"
    /\ \E fields \in TimeFieldLists :
        /\ op' = "parse_time_to_seconds"
        /\ args' = [fields |-> fields, time_str |-> Join(fields, Colon)]
        /\ result' = parse_time_to_seconds(overflow_checks, Join(fields, Colon))
    /\ UNCHANGED <<config, base_url, overflow_checks, served, picked, calls>>

NextParse == ParseTime \/ Return

InitParse ==
    /\ config = DefaultConfig
    /\ Service
    /\ overflow_checks \in BOOLEAN
    /\ served = JNull
    /\ picked = NoPick

SpecParse == InitParse /\ [][NextParse]_vars

\* The configuration alone: every SonosConfig, and its two getters.
InitConfig ==
    /\ config \in Configs
    /\ Service
    /\ overflow_checks = FALSE
    /\ served = JNull
    /\ picked = NoPick

GetApiUrl ==
    /\ op = "init"
    /\ op' = "get_api_url"
    /\ args' = NoArgs
    /\ result' = Returned(get_api_url(config))
    /\ UNCHANGED <<config, base_url, overflow_checks, served, picked, calls>>

GetMp3Server ==
    /\ op = "init"
    /\ op' = "get_mp3_server"
    /\ args' = NoArgs
    /\ result' = Returned(get_mp3_server(config))
    /\ UNCHANGED <<config, base_url, overflow_checks, served, picked, calls>>

NextConfig == GetApiUrl \/ GetMp3Server \/ Return

SpecConfig == InitConfig /\ [][NextConfig]_vars

----------------------------------------------------------------------------
(* Properties *)

\* The calls of an operation that returned.
Done(name) == {c \in InFlight : c.op = name /\ c.pc = "done"}

\* What the backend did to a call, by kind.
TransportFailed(c) == c.outcome.kind = "transport_error"

Responded(c) == c.outcome.kind = "response"

SuccessStatus(c) == Responded(c) /\ is_success(c.outcome.status)

ErrorStatus(c) == Responded(c) /\ ~is_success(c.outcome.status)

SuccessWithJson(c) == SuccessStatus(c) /\ c.outcome.body.kind = "json"

SuccessWithoutJson(c) == SuccessStatus(c) /\ c.outcome.body.kind # "json"

\* The call returned Ok(v) to its caller.
ReturnedOk(c) == ~c.result.panicked /\ c.result.ret.ok

\* A member of a JSON value, when the value is an object that has it.
HasMember(v, key) == v.t = "object" /\ key \in DOMAIN v.obj

\* The text of a member that is a string, or None.
MemberText(v, key) ==
    IF HasMember(v, key) /\ v.obj[key].t = "string"
    THEN Some(v.obj[key].str) ELSE None

\* C1: get_speakers never returns an error: on a transport error, an error
\* status, or a success status whose body is not JSON, it returns an empty
\* list.
C1_ListSpeakersNeverFails ==
    \A c \in Done("get_speakers") :
        (TransportFailed(c) \/ ErrorStatus(c) \/ SuccessWithoutJson(c))
            => c.result = Returned(Ok(<<>>))

\* C2: get_state never returns an error: on a transport error, an error
\* status, or a success status whose body is not JSON, it returns the state
\* with playing = false and every optional field empty.
C2_GetStateNeverFails ==
    \A c \in Done("get_state") :
        (TransportFailed(c) \/ ErrorStatus(c) \/ SuccessWithoutJson(c))
            => c.result = Returned(Ok(SonosState(FALSE, None, None, None, None)))

\* C3: play_track never returns an error, whatever the speaker, the track
\* URL and the backend's answer: it returns a SonosResponse record, and a
\* failure is success = false in that record.
C3_PlayTrackNeverFails ==
    \A c \in Done("play_track") :
        /\ ReturnedOk(c)
        /\ c.result.ret.val.success \in BOOLEAN
        /\ (~SuccessStatus(c) => ~c.result.ret.val.success)

\* C4: once play_track has sent its POST, the backend's answer alone decides
\* the result: success = true with the fixed message exactly on a success
\* status; success = false with a message holding the status code and the
\* body text on an error status (the status code alone when the body could
\* not be read); success = false with a message holding the error's
\* description on a transport error.
C4_PlayResultFollowsOutcome ==
    \A c \in Done("play_track") :
        c.request.some
            => /\ ReturnedOk(c)
               /\ c.result.ret.val.success <=> SuccessStatus(c)
               /\ SuccessStatus(c) => c.result.ret.val.message = TrackStarted
               /\ ErrorStatus(c) =>
                    /\ Contains(c.result.ret.val.message, Decimal(c.outcome.status))
                    /\ c.outcome.body.kind = "text" =>
                           Contains(c.result.ret.val.message, c.outcome.body.text)
               /\ TransportFailed(c) =>
                    Contains(c.result.ret.val.message, c.outcome.desc)

\* C4, its case: a 404 with a body was turned into a failure record, while
\* another call was pending.
C4_Witness ==
    \E c \in Done("play_track") :
        /\ c.outcome = Response(404, TextBody(NoSuchRoom))
        /\ ReturnedOk(c)
        /\ ~c.result.ret.val.success
        /\ \E d \in InFlight : d.pc # "done"

\* A field that is a non-negative integer: decimal digits, at least one.
IsNaturalField(f) == f # <<>> /\ \A i \in 1..Len(f) : IsDigit(f[i])

RECURSIVE NaturalFrom(_, _)
\* The digits ds appended to the number acc. The test on acc has the
\* evaluator compute the number so far before it descends.
NaturalFrom(ds, acc) ==
    IF ds = <<>> \/ Len(acc) < 0 THEN acc
    ELSE NaturalFrom(Tail(ds), BigAdd(BigMul(acc, 10), BigOf(Head(ds) - Digit0)))

\* The number a string of decimal digits writes, exact at any size.
NaturalOf(ds) == NaturalFrom(ds, <<>>)

\* H * 3600 + M * 60 + S, exact.
SecondsHMS(h, m, sec) ==
    BigAdd(BigAdd(BigMul(NaturalOf(h), 3600), BigMul(NaturalOf(m), 60)), NaturalOf(sec))

\* C5: parse_time_to_seconds returns H*3600 + M*60 + S for three fields
\* H:M:S of non-negative integers, M*60 + S for two such fields M:S, and no
\* value (not an error) for any other number of fields.
C5_ParserComputesSeconds ==
    op = "parse_time_to_seconds" =>
        LET f == args.fields
            natural == \A i \in 1..Len(f) : IsNaturalField(f[i])
        IN  /\ (Len(f) = 3 /\ natural)
                => result = Returned(Some(SecondsHMS(f[1], f[2], f[3])))
            /\ (Len(f) = 2 /\ natural)
                => result = Returned(Some(SecondsHMS(Field0, f[1], f[2])))
            /\ Len(f) \notin {2, 3} => result = Returned(None)

\* The calls of get_speakers that returned on a success answer whose body
\* is a JSON array, and the zones of that array.
AnsweredZones ==
    {c \in Done("get_speakers") :
        SuccessWithJson(c) /\ c.outcome.body.value.t = "array"}

ZonesListed(c) == c.outcome.body.value.arr

\* A zone with a coordinator object that has a string roomName.
HasRoomName(zone) ==
    /\ HasMember(zone, "coordinator")
    /\ MemberText(zone.obj["coordinator"], "roomName").some

\* A zone whose coordinator has a string roomName and a string uuid.
HasRoomNameAndUuid(zone) ==
    /\ HasRoomName(zone)
    /\ MemberText(zone.obj["coordinator"], "uuid").some

RoomNameOf(zone) == MemberText(zone.obj["coordinator"], "roomName").val

\* The descriptors are those of these zones, in order: id = name = the
\* zone's room name, available = true.
DescribesZones(speakers, zones) ==
    /\ Len(speakers) = Len(zones)
    /\ \A i \in 1..Len(zones) :
          /\ speakers[i].id = RoomNameOf(zones[i])
          /\ speakers[i].name = RoomNameOf(zones[i])
          /\ speakers[i].available = TRUE

\* C6 as claimed: for a success answer with a JSON array, get_speakers
\* returns, in order, one descriptor for each zone whose coordinator has a
\* string roomName, and none for any other zone.
C6_OneSpeakerPerNamedZone ==
    \A c \in AnsweredZones :
        /\ ReturnedOk(c)
        /\ DescribesZones(c.result.ret.val, SelectSeq(ZonesListed(c), HasRoomName))

\* C6 as amended: for a success answer with a JSON array, get_speakers
\* returns, in order, one descriptor for each zone whose coordinator has a
\* string roomName and a string uuid, and none for any other zone; a zone
\* that is skipped is no error and changes no other zone's descriptor.
C6_OneSpeakerPerNamedZoneWithUuid ==
    \A c \in AnsweredZones :
        /\ ReturnedOk(c)
        /\ DescribesZones(c.result.ret.val,
                          SelectSeq(ZonesListed(c), HasRoomNameAndUuid))

\* C6, its case: of two zones listed one was skipped and one described.
C6_Witness ==
    \E c \in AnsweredZones :
        /\ Len(ZonesListed(c)) = 2
        /\ ~HasRoomNameAndUuid(ZonesListed(c)[1])
        /\ HasRoomNameAndUuid(ZonesListed(c)[2])
        /\ ReturnedOk(c)
        /\ Len(c.result.ret.val) = 1

\* The first position of the marker in the track URL; 0 if it has none.
MarkerAt(url) ==
    LET at == {i \in 1..Len(url) : MatchAt(url, AudioMarker, i)}
    IN  IF at = {} THEN 0 ELSE CHOOSE i \in at : \A j \in at : i <= j

\* Everything after the first marker.
AfterMarker(url) == SubSeq(url, MarkerAt(url) + Len(AudioMarker), Len(url))

\* The track URL has a track path in the claim's sense: it has no marker,
\* or what follows its first marker percent-decodes to text.
HasTrackPath(url) == MarkerAt(url) = 0 \/ UrlDecode(AfterMarker(url)).ok

ClaimedTrackPath(url) ==
    IF MarkerAt(url) = 0 THEN url ELSE UrlDecode(AfterMarker(url)).val

ClaimedShareUri(url, file_server) ==
    Concat(<<CifsScheme, file_server, Slash, ClaimedTrackPath(url)>>)

\* C7: the track path is the percent-decoded text of everything after the
\* first /audio/ marker, or the whole URL when there is no marker; the
\* request is a POST to {base_url}/{speaker_id}/setavtransporturi/{segment}
\* where the segment is the percent-encoded share URI
\* x-file-cifs://{file_server}/{track path}, and decoding the segment gives
\* the share URI back.
C7_ShareUriFromWholeRemainder ==
    \A c \in InFlight :
        (c.op = "play_track" /\ HasTrackPath(c.args.track_url)) =>
            LET share == ClaimedShareUri(c.args.track_url, c.args.file_server)
                segment == UrlEncode(share)
            IN  /\ c.request.some
                /\ c.request.val.method = "POST"
                /\ c.request.val.url =
                       Concat(<<base_url, Slash, c.args.speaker_id,
                                SetUriSegment, segment>>)
                /\ UrlDecode(segment) = Ok(share)

\* The playback state of a success answer whose body is JSON.
StateReported(c) == c.outcome.body.value

\* The seconds the duration parser computes for an optional time string:
\* None when there is no string or the parser yields no value.
ParserSeconds(time) ==
    IF time.some
    THEN parse_time_to_seconds(overflow_checks, time.val).ret
    ELSE None

ParserPanics(time) ==
    time.some /\ parse_time_to_seconds(overflow_checks, time.val).panicked

ReportedTrack(c) ==
    IF HasMember(StateReported(c), "currentTrack")
    THEN StateReported(c).obj["currentTrack"] ELSE JNull

\* C8: for a success answer whose body is JSON (with time strings the
\* parser accepts or rejects without panicking), get_state returns
\* playing = (playbackState is the string "PLAYING"), artist and title = the
\* strings of currentTrack, and position and duration = the seconds the
\* duration parser computes for relTime and currentTrack.duration, the same
\* integer value.
C8_StateMirrorsReport ==
    \A c \in Done("get_state") :
        (/\ SuccessWithJson(c)
         /\ ~ParserPanics(MemberText(StateReported(c), "relTime"))
         /\ ~ParserPanics(MemberText(ReportedTrack(c), "duration")))
            => /\ ReturnedOk(c)
               /\ c.result.ret.val.is_playing
                      = (MemberText(StateReported(c), "playbackState") = Some(Playing))
               /\ c.result.ret.val.artist = MemberText(ReportedTrack(c), "artist")
               /\ c.result.ret.val.title = MemberText(ReportedTrack(c), "title")
               /\ c.result.ret.val.position
                      = ParserSeconds(MemberText(StateReported(c), "relTime"))
               /\ c.result.ret.val.duration
                      = ParserSeconds(MemberText(ReportedTrack(c), "duration"))

\* The value a getter must return for a setting.
SettingOr(setting, default) == IF setting = None THEN default ELSE setting.val

\* C9: get_api_url returns the configured base URL, or
\* http://192.168.0.5:5005 when none is set; get_mp3_server returns the
\* configured file server, or 192.168.0.6/mp3 when none is set; each value
\* depends on its own setting only, and reading leaves the configuration as
\* it was.
C9_SettingsDefaultIndependently ==
    [][/\ op' = "get_api_url" =>
            /\ result' = Returned(SettingOr(config.api_url, DEFAULT_SONOS_API_URL))
            /\ config' = config
       /\ op' = "get_mp3_server" =>
            /\ result' = Returned(SettingOr(config.mp3_server, DEFAULT_SONOS_MP3_SERVER))
            /\ config' = config]_vars

\* C9, its case: the file server was read unset while the base URL was set.
C9_Witness ==
    /\ op = "get_mp3_server"
    /\ config.mp3_server = None
    /\ config.api_url # None
    /\ config.api_url # Some(DEFAULT_SONOS_API_URL)
    /\ result = Returned(DEFAULT_SONOS_MP3_SERVER)

\* The volume number a zone reports, as an option: a non-negative integer
\* at coordinator.state.volume.
ReportedVolume(zone) ==
    LET c == zone.obj["coordinator"]
        st == IF HasMember(c, "state") THEN c.obj["state"] ELSE JNull
        v == IF HasMember(st, "volume") THEN st.obj["volume"] ELSE JNull
    IN  IF v.t = "number" /\ v.num >= 0 THEN Some(v.num) ELSE None

\* C10: every descriptor get_speakers returns has no volume or a volume in
\* 0..100, and a volume that is present is the number the zone reports at
\* coordinator.state.volume, whatever non-negative integer that is.
C10_VolumeIsReportedVolume ==
    \A c \in AnsweredZones :
        ReturnedOk(c) =>
            LET zones == SelectSeq(ZonesListed(c), HasRoomNameAndUuid)
            IN  \A i \in 1..Len(c.result.ret.val) :
                    LET volume == c.result.ret.val[i].volume
                    IN  volume.some =>
                            /\ volume.val \in 0..100
                            /\ i <= Len(zones)
                            /\ volume = ReportedVolume(zones[i])

====
